---- MODULE Spec2Model ----
(***************************************************************************)
(* Candlestick pattern detection (candlestick_patterns.py).                *)
(*                                                                         *)
(* A DataFrame is modelled by its column labels and its rows; a row is a   *)
(* function from the column labels to prices.  Prices are integers (ticks).*)
(* The code's float comparisons against the factors 0.1, 0.2, 0.5 and      *)
(* against the rolling means are modelled exactly, by cross-multiplying:   *)
(*     x <= 0.1 * y     is   10 * x <= y                                   *)
(*     x >  0.2 * y     is    5 * x >  y                                   *)
(*     x <  0.5 * y     is    2 * x <  y                                   *)
(*     x >  2 * (s / n) is    n * x >  2 * s      (n >= 1)                 *)
(* A rolling mean is kept as the pair (sum, n) of its window.              *)
(***************************************************************************)
EXTENDS Integers, Sequences, FiniteSets, TLC

\* ------------------------------------------------------------------ bounds
\* Prices range over 0..MaxPrice.  A series is a history of at most MaxHist
\* rows (MaxWindowHist in the long-series specification) followed by freely
\* chosen candles.
MaxPrice == 3
MaxHist == 1
MaxWindowHist == 21
MaxFinePrice == 12

\* A batch is called with at most MaxTokens tokens.
MaxTokens == 3

\* The patterns read high and low of the last two rows only (current and
\* previous, lines 120-121; second and third, lines 164-165); of older rows
\* they read open and close.  The inputs are built to match: a history of
\* candles without shadows, then up to FreeRows candles of any shape.
FreeRows == 2

\* rolling(window=20, min_periods=1)
Window == 20

Prices == 0..MaxPrice

\* required_cols, in the order _prepare_data tests them
required_cols == <<"open", "high", "low", "close">>

Columns == {required_cols[i] : i \in 1..Len(required_cols)}

Max2(a, b) == IF a >= b THEN a ELSE b
Min2(a, b) == IF a <= b THEN a ELSE b
Abs(x) == IF x >= 0 THEN x ELSE -x

\* The candles a data provider delivers: high is the highest and low the
\* lowest price of the period.
Candles ==
    {c \in [Columns -> Prices] :
        /\ c["high"] >= Max2(c["open"], c["close"])
        /\ c["low"] <= Min2(c["open"], c["close"])}

\* Older rows of a series: candles without shadows.
ShadowlessCandles ==
    {c \in Candles :
        /\ c["high"] = Max2(c["open"], c["close"])
        /\ c["low"] = Min2(c["open"], c["close"])}

\* In a long series: flat, or spanning the whole price range.
FlatCandle == [k \in Columns |-> 0]
WideCandle == [k \in Columns |-> IF k \in {"high", "close"} THEN MaxPrice ELSE 0]
HistoryCandles == {FlatCandle, WideCandle}

\* Candles on a finer price grid, where the ratios 0.1 and 0.2 of the doji
\* tests separate: a candle of range 10 has room for a body of a tenth of it.
FinePrices == 0..MaxFinePrice

FineCandles ==
    {c \in [Columns -> FinePrices] :
        /\ c["high"] >= Max2(c["open"], c["close"])
        /\ c["low"] <= Min2(c["open"], c["close"])}

\* The candle before it on that grid: bearish or bullish over the whole range,
\* or a small bearish one in the middle of it.
FineBear == [k \in Columns |-> IF k \in {"high", "open"} THEN MaxFinePrice ELSE 0]
FineBull == [k \in Columns |-> IF k \in {"high", "close"} THEN MaxFinePrice ELSE 0]
FineSmall ==
    [k \in Columns |-> IF k \in {"high", "open"} THEN (MaxFinePrice \div 2) + 1
                       ELSE (MaxFinePrice \div 2) - 1]
FinePrevious == {FineBear, FineBull, FineSmall}

\* n copies of candle c
Repeat(c, n) == [i \in 1..n |-> c]

\* a row of a frame whose columns are cs
Row(c, cs) == [k \in cs |-> c[k]]

NoDetector == [df |-> <<>>, avg_body_size |-> <<>>, avg_total_size |-> <<>>, built |-> FALSE]

VARIABLES
    df,         \* the caller's DataFrame: [cols, rows]
    pc,         \* "input" | "constructed" | "detected" | "returned" | "raised"
    detector,   \* the CandlestickPatternDetector object (its private copy)
    patterns,   \* the list handed back to the caller
    error,      \* the message of the ValueError raised, "" when none
    call,       \* the entry point the caller used, "" before the call
    room,       \* how many more candles the caller may append
    alice,      \* the data provider: what it holds for each token of the batch
    strategy,   \* the strategy name handed to the batch
    future,     \* per token: the state of its future and what the task left
    results,    \* the list analyze_all_tokens_advanced builds
    printed,    \* the lines written to standard output
    bpc         \* "idle" | "running" | "returned" | "raised": the batch call

batchvars == <<alice, strategy, future, results, printed, bpc>>

vars == <<df, pc, detector, patterns, error, call, room,
          alice, strategy, future, results, printed, bpc>>

\* no batch call is made
NoBatch ==
    /\ alice = <<>>
    /\ strategy = ""
    /\ future = <<>>
    /\ results = <<>>
    /\ printed = {}
    /\ bpc = "idle"

\* ------------------------------------------------------- feature derivation

\* only the column axis is tested
DfEmpty_columns_only(d) == d.cols = {}

\* df.empty: some axis of the frame has length 0
DfEmpty(d) == Len(d.rows) = 0 \/ d.cols = {}

MissingCols(d) == {i \in 1..Len(required_cols) : required_cols[i] \notin d.cols}

\* the message names the first required column, missing or not
FirstMissing_first_required(d) == required_cols[1]

\* the column named by the ValueError: the first one missing, in list order
FirstMissing(d) ==
    required_cols[CHOOSE i \in MissingCols(d) : \A j \in MissingCols(d) : i <= j]

ErrorMessage(col) == "Missing required column: " \o col

\* the derived columns of one row (lines 31-37)
Features(r) ==
    LET body == r["close"] - r["open"] IN
    [open |-> r["open"], high |-> r["high"], low |-> r["low"], close |-> r["close"],
     body |-> body,
     body_size |-> Abs(body),
     upper_shadow |-> r["high"] - Max2(r["open"], r["close"]),
     lower_shadow |-> Min2(r["open"], r["close"]) - r["low"],
     total_size |-> r["high"] - r["low"],
     is_bullish |-> body > 0,
     is_bearish |-> body < 0]

RECURSIVE SumRange(_, _, _)
SumRange(s, lo, hi) == IF lo > hi THEN 0 ELSE s[hi] + SumRange(s, lo, hi - 1)

\* an expanding mean: every row up to i
RollingMean_expanding(s, w) ==
    [i \in 1..Len(s) |-> [sum |-> SumRange(s, 1, i), n |-> i]]

\* a window of w + 1 rows
RollingMean_off_by_one(s, w) ==
    [i \in 1..Len(s) |->
        LET lo == Max2(1, i - w) IN
        [sum |-> SumRange(s, lo, i), n |-> i - lo + 1]]

\* Series.rolling(window=w, min_periods=1).mean(): at index i the mean of
\* the rows max(1, i-w+1)..i, kept as (sum, n)
RollingMean(s, w) ==
    [i \in 1..Len(s) |->
        LET lo == Max2(1, i - w + 1) IN
        [sum |-> SumRange(s, lo, i), n |-> i - lo + 1]]

\* _prepare_data after the column check
PrepareData(d) ==
    LET f == [i \in 1..Len(d.rows) |-> Features(d.rows[i])] IN
    [df |-> f,
     avg_body_size |-> RollingMean([i \in 1..Len(f) |-> f[i].body_size], Window),
     avg_total_size |-> RollingMean([i \in 1..Len(f) |-> f[i].total_size], Window),
     built |-> TRUE]

\* ------------------------------------------------- single-candle predicates
\* avg is a rolling mean (sum, n); avg_total is accepted and ignored, as in
\* the code.

\* strict comparison
_is_doji_strict(candle, avg_total) == 10 * candle.body_size < candle.total_size

_is_doji(candle, avg_total) == 10 * candle.body_size <= candle.total_size

\* without the bound on the upper shadow
_is_dragonfly_doji_any_upper(candle) ==
    /\ 10 * candle.body_size <= candle.total_size
    /\ candle.lower_shadow > 2 * candle.body_size

_is_dragonfly_doji(candle) ==
    /\ 10 * candle.body_size <= candle.total_size
    /\ 10 * candle.upper_shadow <= candle.total_size
    /\ candle.lower_shadow > 2 * candle.body_size

_is_gravestone_doji(candle) ==
    /\ 10 * candle.body_size <= candle.total_size
    /\ 10 * candle.lower_shadow <= candle.total_size
    /\ candle.upper_shadow > 2 * candle.body_size

_is_long_legged_doji(candle) ==
    /\ 10 * candle.body_size <= candle.total_size
    /\ 5 * candle.upper_shadow > candle.total_size
    /\ 5 * candle.lower_shadow > candle.total_size

\* without the bound on the upper shadow
_is_hammer_no_upper(candle, avg_body) ==
    /\ candle.lower_shadow * avg_body.n > 2 * avg_body.sum
    /\ candle.body_size * avg_body.n < avg_body.sum

\* the body compared with <= against the baseline
_is_hammer_nonstrict(candle, avg_body) ==
    /\ candle.lower_shadow * avg_body.n > 2 * avg_body.sum
    /\ candle.upper_shadow * avg_body.n < avg_body.sum
    /\ candle.body_size * avg_body.n <= avg_body.sum

_is_hammer(candle, avg_body) ==
    /\ candle.lower_shadow * avg_body.n > 2 * avg_body.sum
    /\ candle.upper_shadow * avg_body.n < avg_body.sum
    /\ candle.body_size * avg_body.n < avg_body.sum

_is_inverted_hammer(candle, avg_body) ==
    /\ candle.upper_shadow * avg_body.n > 2 * avg_body.sum
    /\ candle.lower_shadow * avg_body.n < avg_body.sum
    /\ candle.body_size * avg_body.n < avg_body.sum

_is_hanging_man(candle, avg_body) ==
    /\ candle.lower_shadow * avg_body.n > 2 * avg_body.sum
    /\ candle.upper_shadow * avg_body.n < avg_body.sum
    /\ candle.body_size * avg_body.n < avg_body.sum
    /\ candle.is_bearish

_is_shooting_star(candle, avg_body) ==
    /\ candle.upper_shadow * avg_body.n > 2 * avg_body.sum
    /\ candle.lower_shadow * avg_body.n < avg_body.sum
    /\ candle.body_size * avg_body.n < avg_body.sum
    /\ candle.is_bearish

_is_spinning_top(candle, avg_body) ==
    /\ candle.upper_shadow * avg_body.n > avg_body.sum
    /\ candle.lower_shadow * avg_body.n > avg_body.sum
    /\ candle.body_size * avg_body.n < avg_body.sum

\* the three comparisons not strict
_is_marubozu_nonstrict(candle, avg_body) ==
    /\ candle.body_size * avg_body.n >= 2 * avg_body.sum
    /\ 10 * candle.upper_shadow <= candle.body_size
    /\ 10 * candle.lower_shadow <= candle.body_size

_is_marubozu(candle, avg_body) ==
    /\ candle.body_size * avg_body.n > 2 * avg_body.sum
    /\ 10 * candle.upper_shadow < candle.body_size
    /\ 10 * candle.lower_shadow < candle.body_size

\* ---------------------------------------------------- two-candle predicates

\* the open compared the wrong way round
_is_bullish_engulfing_open_above(current, previous) ==
    /\ previous.is_bearish
    /\ current.is_bullish
    /\ current.open > previous.close
    /\ current.close > previous.open

_is_bullish_engulfing(current, previous) ==
    /\ previous.is_bearish
    /\ current.is_bullish
    /\ current.open < previous.close
    /\ current.close > previous.open

_is_bearish_engulfing(current, previous) ==
    /\ previous.is_bullish
    /\ current.is_bearish
    /\ current.open > previous.close
    /\ current.close < previous.open

_is_bullish_harami(current, previous) ==
    /\ previous.is_bearish
    /\ current.is_bullish
    /\ current.high < previous.open
    /\ current.low > previous.close

_is_bearish_harami(current, previous) ==
    /\ previous.is_bullish
    /\ current.is_bearish
    /\ current.high < previous.close
    /\ current.low > previous.open

\* without the doji test on the current candle
_is_harami_cross_any_body(current, previous) ==
    _is_bullish_harami(current, previous) \/ _is_bearish_harami(current, previous)

_is_harami_cross(current, previous) ==
    /\ _is_bullish_harami(current, previous) \/ _is_bearish_harami(current, previous)
    /\ _is_doji(current, current.total_size)

_is_piercing_pattern(current, previous) ==
    /\ previous.is_bearish
    /\ current.is_bullish
    /\ current.open < previous.low
    /\ 2 * current.close > 2 * previous.close + previous.body_size

_is_dark_cloud_cover(current, previous) ==
    /\ previous.is_bullish
    /\ current.is_bearish
    /\ current.open > previous.high
    /\ 2 * current.close < 2 * previous.close - previous.body_size

\* the highs compared, whatever the directions
_is_tweezer_tops_any_direction(current, previous) ==
    10 * Abs(current.high - previous.high) < current.high

_is_tweezer_tops(current, previous) ==
    /\ 10 * Abs(current.high - previous.high) < current.high
    /\ current.is_bearish
    /\ previous.is_bullish

_is_tweezer_bottoms(current, previous) ==
    /\ 10 * Abs(current.low - previous.low) < current.low
    /\ current.is_bullish
    /\ previous.is_bearish

\* -------------------------------------------------- three-candle predicates

\* the textbook pattern: the second body gaps below the first close
_is_morning_star_with_gap(first, second, third) ==
    /\ first.is_bearish
    /\ 2 * second.body_size < first.body_size
    /\ Max2(second.open, second.close) < first.close
    /\ third.is_bullish
    /\ 2 * third.close > first.open + first.close

_is_morning_star(first, second, third) ==
    /\ first.is_bearish
    /\ 2 * second.body_size < first.body_size
    /\ third.is_bullish
    /\ 2 * third.close > first.open + first.close

_is_evening_star(first, second, third) ==
    /\ first.is_bullish
    /\ 2 * second.body_size < first.body_size
    /\ third.is_bearish
    /\ 2 * third.close < first.open + first.close

_is_three_white_soldiers(first, second, third) ==
    /\ first.is_bullish /\ second.is_bullish /\ third.is_bullish
    /\ second.open > first.open /\ third.open > second.open
    /\ second.close > first.close /\ third.close > second.close

_is_three_black_crows(first, second, third) ==
    /\ first.is_bearish /\ second.is_bearish /\ third.is_bearish
    /\ second.open < first.open /\ third.open < second.open
    /\ second.close < first.close /\ third.close < second.close

_is_three_inside_up(first, second, third) ==
    /\ first.is_bearish
    /\ _is_bullish_harami(second, first)
    /\ third.is_bullish /\ third.close > second.high

_is_three_inside_down(first, second, third) ==
    /\ first.is_bullish
    /\ _is_bearish_harami(second, first)
    /\ third.is_bearish /\ third.close < second.low

_is_three_outside_up(first, second, third) ==
    /\ first.is_bearish
    /\ _is_bullish_engulfing(second, first)
    /\ third.is_bullish /\ third.close > second.high

_is_three_outside_down(first, second, third) ==
    /\ first.is_bullish
    /\ _is_bearish_engulfing(second, first)
    /\ third.is_bearish /\ third.close < second.low

\* ------------------------------------------------------------- aggregator

\* patterns.append(label) under a condition
Append_if(cond, label) == IF cond THEN <<label>> ELSE <<>>

\* independent ifs instead of the if / elif chain
DojiFamily_independent(current, avg_total) ==
    IF _is_doji(current, avg_total)
    THEN Append_if(_is_dragonfly_doji(current), "Dragonfly Doji")
         \o Append_if(_is_gravestone_doji(current), "Gravestone Doji")
         \o Append_if(_is_long_legged_doji(current), "Long-legged Doji")
         \o <<"Doji">>
    ELSE <<>>

\* the chain without its last else
DojiFamily_no_fallback(current, avg_total) ==
    IF _is_doji(current, avg_total)
    THEN IF _is_dragonfly_doji(current) THEN <<"Dragonfly Doji">>
         ELSE IF _is_gravestone_doji(current) THEN <<"Gravestone Doji">>
         ELSE IF /\ 10 * current.upper_shadow <= current.total_size
                 /\ 10 * current.lower_shadow <= current.total_size
              THEN <<"Doji">>
         ELSE IF _is_long_legged_doji(current) THEN <<"Long-legged Doji">>
         ELSE <<>>
    ELSE <<>>

\* the if / elif chain of the Doji family (lines 75-86)
DojiFamily(current, avg_total) ==
    IF _is_doji(current, avg_total)
    THEN IF _is_dragonfly_doji(current) THEN <<"Dragonfly Doji">>
         ELSE IF _is_gravestone_doji(current) THEN <<"Gravestone Doji">>
         ELSE IF /\ 10 * current.upper_shadow <= current.total_size
                 /\ 10 * current.lower_shadow <= current.total_size
              THEN <<"Doji">>
         ELSE IF _is_long_legged_doji(current) THEN <<"Long-legged Doji">>
         ELSE <<"Doji">>
    ELSE <<>>

\* one label for either direction
Marubozu_undirected(current, avg_body) ==
    IF _is_marubozu(current, avg_body) THEN <<"Marubozu">> ELSE <<>>

\* lines 105-109
Marubozu(current, avg_body) ==
    IF _is_marubozu(current, avg_body)
    THEN IF current.is_bullish THEN <<"Bullish Marubozu">> ELSE <<"Bearish Marubozu">>
    ELSE <<>>

\* the labels of the last candle, in the order of lines 74-109
SingleCandleLabels(current, avg_body, avg_total) ==
    DojiFamily(current, avg_total)
    \o Append_if(_is_hammer(current, avg_body), "Hammer")
    \o Append_if(_is_inverted_hammer(current, avg_body), "Inverted Hammer")
    \o Append_if(_is_hanging_man(current, avg_body), "Hanging Man")
    \o Append_if(_is_shooting_star(current, avg_body), "Shooting Star")
    \o Append_if(_is_spinning_top(current, avg_body), "Spinning Top")
    \o Marubozu(current, avg_body)

\* the labels of a pair of candles, in the order of lines 123-152
TwoCandleLabels(current, previous) ==
    Append_if(_is_bullish_engulfing(current, previous), "Bullish Engulfing")
    \o Append_if(_is_bearish_engulfing(current, previous), "Bearish Engulfing")
    \o Append_if(_is_bullish_harami(current, previous), "Bullish Harami")
    \o Append_if(_is_bearish_harami(current, previous), "Bearish Harami")
    \o Append_if(_is_harami_cross(current, previous), "Harami Cross")
    \o Append_if(_is_piercing_pattern(current, previous), "Piercing Pattern")
    \o Append_if(_is_dark_cloud_cover(current, previous), "Dark Cloud Cover")
    \o Append_if(_is_tweezer_tops(current, previous), "Tweezer Tops")
    \o Append_if(_is_tweezer_bottoms(current, previous), "Tweezer Bottoms")

\* the labels of three candles, in the order of lines 167-193
ThreeCandleLabels(first, second, third) ==
    Append_if(_is_morning_star(first, second, third), "Morning Star")
    \o Append_if(_is_evening_star(first, second, third), "Evening Star")
    \o Append_if(_is_three_white_soldiers(first, second, third), "Three White Soldiers")
    \o Append_if(_is_three_black_crows(first, second, third), "Three Black Crows")
    \o Append_if(_is_three_inside_up(first, second, third), "Three Inside Up")
    \o Append_if(_is_three_inside_down(first, second, third), "Three Inside Down")
    \o Append_if(_is_three_outside_up(first, second, third), "Three Outside Up")
    \o Append_if(_is_three_outside_down(first, second, third), "Three Outside Down")

\* iloc[-1] is the last row, df[n]
_detect_single_candlestick_patterns(self) ==
    LET n == Len(self.df) IN
    IF n < 1 THEN <<>>
    ELSE SingleCandleLabels(self.df[n], self.avg_body_size[n], self.avg_total_size[n])

\* previous read from the first row (iloc[0]) instead of iloc[-2]
_detect_two_first_row(self) ==
    LET n == Len(self.df) IN
    IF n < 2 THEN <<>>
    ELSE TwoCandleLabels(self.df[n], self.df[1])

_detect_two_candlestick_patterns(self) ==
    LET n == Len(self.df) IN
    IF n < 2 THEN <<>>
    ELSE TwoCandleLabels(self.df[n], self.df[n - 1])

_detect_three_candlestick_patterns(self) ==
    LET n == Len(self.df) IN
    IF n < 3 THEN <<>>
    ELSE ThreeCandleLabels(self.df[n - 2], self.df[n - 1], self.df[n])

\* the two-candle tier collected first
detect_all_patterns_two_first(self) ==
    _detect_two_candlestick_patterns(self)
    \o _detect_single_candlestick_patterns(self)
    \o _detect_three_candlestick_patterns(self)

detect_all_patterns(self) ==
    _detect_single_candlestick_patterns(self)
    \o _detect_two_candlestick_patterns(self)
    \o _detect_three_candlestick_patterns(self)

\* --------------------------------------------------------- descriptions

\* the dict of get_pattern_description, as (key, description) in source order
descriptions ==
    <<
      <<"Doji",
        "A doji occurs when the open and close prices are virtually equal, indicating indecision in the market.">>,
      <<"Hammer",
        "A bullish reversal pattern with a small body at the top and a long lower shadow.">>,
      <<"Inverted Hammer",
        "A bullish reversal pattern with a small body at the bottom and a long upper shadow.">>,
      <<"Hanging Man",
        "A bearish reversal pattern that looks like a hammer but appears after an uptrend.">>,
      <<"Shooting Star",
        "A bearish reversal pattern with a small body at the bottom and a long upper shadow.">>,
      <<"Spinning Top",
        "A pattern indicating indecision with small body and long shadows.">>,
      <<"Bullish Marubozu",
        "A strong bullish candle with no shadows.">>,
      <<"Bearish Marubozu",
        "A strong bearish candle with no shadows.">>,
      <<"Dragonfly Doji",
        "A doji with a long lower shadow and virtually no upper shadow.">>,
      <<"Gravestone Doji",
        "A doji with a long upper shadow and virtually no lower shadow.">>,
      <<"Long-legged Doji",
        "A doji with long upper and lower shadows.">>,
      <<"Bullish Engulfing",
        "A bullish reversal pattern where the current candle completely engulfs the previous bearish candle.">>,
      <<"Bearish Engulfing",
        "A bearish reversal pattern where the current candle completely engulfs the previous bullish candle.">>,
      <<"Bullish Harami",
        "A bullish reversal pattern where a small bullish candle is contained within the previous bearish candle.">>,
      <<"Bearish Harami",
        "A bearish reversal pattern where a small bearish candle is contained within the previous bullish candle.">>,
      <<"Harami Cross",
        "A harami pattern where the second candle is a doji.">>,
      <<"Piercing Pattern",
        "A bullish reversal pattern where the current candle opens below the previous low but closes above the midpoint.">>,
      <<"Dark Cloud Cover",
        "A bearish reversal pattern where the current candle opens above the previous high but closes below the midpoint.">>,
      <<"Tweezer Tops",
        "Two candles with identical highs, indicating resistance.">>,
      <<"Tweezer Bottoms",
        "Two candles with identical lows, indicating support.">>,
      <<"Morning Star",
        "A bullish reversal pattern with a bearish candle, a small-bodied candle, and a bullish candle.">>,
      <<"Evening Star",
        "A bearish reversal pattern with a bullish candle, a small-bodied candle, and a bearish candle.">>,
      <<"Three White Soldiers",
        "Three consecutive bullish candles with higher opens and closes.">>,
      <<"Three Black Crows",
        "Three consecutive bearish candles with lower opens and closes.">>,
      <<"Three Inside Up",
        "A bullish reversal pattern with a bearish candle, a harami, and a bullish candle.">>,
      <<"Three Inside Down",
        "A bearish reversal pattern with a bullish candle, a harami, and a bearish candle.">>,
      <<"Three Outside Up",
        "A bullish reversal pattern with a bearish candle, an engulfing, and a bullish candle.">>,
      <<"Three Outside Down",
        "A bearish reversal pattern with a bullish candle, an engulfing, and a bearish candle.">>
    >>

\* descriptions.get(pattern_name, 'Pattern description not available.')
get_pattern_description(pattern_name) ==
    IF \E i \in 1..Len(descriptions) : descriptions[i][1] = pattern_name
    THEN descriptions[CHOOSE i \in 1..Len(descriptions) : descriptions[i][1] = pattern_name][2]
    ELSE "Pattern description not available."

\* ----------------------------------------------------------------- actions

\* A frame with all four columns and a history of equal candles without
\* shadows, or a frame with any set of columns and no row yet; the caller then
\* appends up to FreeRows candles of any shape.
Init ==
    /\ df \in {[cols |-> Columns, rows |-> Repeat(h, n)] :
                 h \in ShadowlessCandles, n \in 0..MaxHist}
              \cup {[cols |-> cs, rows |-> <<>>] : cs \in SUBSET Columns}
    /\ pc = "input"
    /\ detector = NoDetector
    /\ patterns = <<>>
    /\ error = ""
    /\ call = ""
    /\ room = FreeRows
    /\ NoBatch

\* Long series, longer than the rolling window: a history of two runs of equal
\* candles, then one more candle.
InitWindow ==
    /\ df \in {[cols |-> Columns, rows |-> Repeat(a, k) \o Repeat(b, m)] :
                 a \in HistoryCandles, b \in HistoryCandles,
                 k \in 0..MaxWindowHist, m \in 0..MaxWindowHist}
    /\ Len(df.rows) <= MaxWindowHist
    /\ pc = "input"
    /\ detector = NoDetector
    /\ patterns = <<>>
    /\ error = ""
    /\ call = ""
    /\ room = 1
    /\ NoBatch

\* Short series on the finer grid: one candle, or one of the previous candles
\* and then one candle; the caller appends nothing.
InitFine ==
    /\ df \in {[cols |-> Columns, rows |-> h \o <<c>>] :
                 h \in {<<>>} \cup {<<p>> : p \in FinePrevious}, c \in FineCandles}
    /\ pc = "input"
    /\ detector = NoDetector
    /\ patterns = <<>>
    /\ error = ""
    /\ call = ""
    /\ room = 0
    /\ NoBatch

\* The caller's frame gains a row: a candle, restricted to the frame's columns.
AppendCandle ==
    /\ pc = "input"
    /\ room > 0
    /\ room' = room - 1
    /\ \E c \in Candles :
         df' = [df EXCEPT !.rows = Append(@, Row(c, df.cols))]
    /\ UNCHANGED <<pc, detector, patterns, error, call>>
    /\ UNCHANGED batchvars

\* self.df = df without the copy: the derived columns land on the caller's
\* frame
Construct_no_copy ==
    /\ pc = "input"
    /\ call' = "CandlestickPatternDetector"
    /\ IF MissingCols(df) # {}
       THEN /\ pc' = "raised"
            /\ error' = ErrorMessage(FirstMissing(df))
            /\ UNCHANGED <<df, detector, patterns>>
       ELSE /\ pc' = "constructed"
            /\ detector' = PrepareData(df)
            /\ df' = [cols |-> DOMAIN Features(df.rows[1]), rows |-> detector'.df]
            /\ UNCHANGED <<patterns, error>>
    /\ UNCHANGED room
    /\ UNCHANGED batchvars

\* CandlestickPatternDetector(df): __init__ copies the frame and runs
\* _prepare_data, which raises on the first missing column before it derives
\* anything.
Construct ==
    /\ pc = "input"
    /\ call' = "CandlestickPatternDetector"
    /\ IF MissingCols(df) # {}
       THEN /\ pc' = "raised"
            /\ error' = ErrorMessage(FirstMissing(df))
            /\ UNCHANGED <<detector, patterns>>
       ELSE /\ pc' = "constructed"
            /\ detector' = PrepareData(df)
            /\ UNCHANGED <<patterns, error>>
    /\ UNCHANGED <<df, room>>
    /\ UNCHANGED batchvars

\* the list kept on the detector and extended by every call
DetectAllPatterns_accumulating ==
    /\ pc \in {"constructed", "detected"}
    /\ pc' = "detected"
    /\ patterns' = patterns \o detect_all_patterns(detector)
    /\ UNCHANGED <<df, detector, error, call, room>>
    /\ UNCHANGED batchvars

\* detector.detect_all_patterns(), any number of times on one detector
DetectAllPatterns ==
    /\ pc \in {"constructed", "detected"}
    /\ pc' = "detected"
    /\ patterns' = detect_all_patterns(detector)
    /\ UNCHANGED <<df, detector, error, call, room>>
    /\ UNCHANGED batchvars

\* detect_candlestick_patterns(df): the convenience function, start to end
detect_candlestick_patterns ==
    /\ pc = "input"
    /\ call' = "detect_candlestick_patterns"
    /\ IF DfEmpty(df)
       THEN /\ pc' = "returned"
            /\ patterns' = <<>>
            /\ UNCHANGED <<detector, error>>
       ELSE IF MissingCols(df) # {}
       THEN /\ pc' = "raised"
            /\ error' = ErrorMessage(FirstMissing(df))
            /\ UNCHANGED <<detector, patterns>>
       ELSE /\ pc' = "returned"
            /\ detector' = PrepareData(df)
            /\ patterns' = detect_all_patterns(detector')
            /\ UNCHANGED error
    /\ UNCHANGED <<df, room>>
    /\ UNCHANGED batchvars

Next ==
    \/ AppendCandle
    \/ Construct
    \/ DetectAllPatterns
    \/ detect_candlestick_patterns

Spec == Init /\ [][Next]_vars

SpecWindow == InitWindow /\ [][Next]_vars

\* the calls on a frame as it stands
NextFine ==
    \/ Construct
    \/ DetectAllPatterns
    \/ detect_candlestick_patterns

SpecFine == InitFine /\ [][NextFine]_vars

\* ------------------------------------------- batch analysis (advanced_analysis.py)

\* len(df) < 100 leaves a token unanalysed
MinRows == 100

Strategies ==
    {"Price Action Breakout", "Volume Profile Analysis",
     "Market Structure Analysis", "Multi-Factor Analysis", "Unknown"}

Candle(o, h, l, c) == [open |-> o, high |-> h, low |-> l, close |-> c]

\* What the data provider holds for an instrument: whether the request fails,
\* the frame it answers with, and what the analyses outside this model
\* (volume confirmation, market structure, volume profile) make of that frame.
FeedRally ==
    [fails |-> FALSE,
     cols |-> Columns \cup {"volume"},
     rows |-> Repeat(Candle(1, 1, 1, 1), MinRows - 2)
                \o <<Candle(2, 2, 1, 1), Candle(0, 3, 0, 3)>>,
     volume |-> 9,
     volume_confirmation |-> TRUE,
     market_structure |-> "Uptrend",
     volume_nodes |-> <<1, 3>>,
     nearby_nodes |-> 1]

FeedQuiet ==
    [fails |-> FALSE,
     cols |-> Columns \cup {"volume"},
     rows |-> Repeat(Candle(0, 3, 0, 3), MinRows),
     volume |-> 1,
     volume_confirmation |-> FALSE,
     market_structure |-> "Sideways",
     volume_nodes |-> <<>>,
     nearby_nodes |-> 0]

FeedShort ==
    [fails |-> FALSE,
     cols |-> Columns \cup {"volume"},
     rows |-> Repeat(Candle(1, 1, 1, 1), MinRows - 3)
                \o <<Candle(2, 2, 1, 1), Candle(0, 3, 0, 3)>>,
     volume |-> 9,
     volume_confirmation |-> TRUE,
     market_structure |-> "Uptrend",
     volume_nodes |-> <<1, 3>>,
     nearby_nodes |-> 1]

FeedNoOpen ==
    [fails |-> FALSE,
     cols |-> {"high", "low", "close", "volume"},
     rows |-> Repeat(Row(Candle(0, 3, 0, 3), {"high", "low", "close"}), MinRows),
     volume |-> 9,
     volume_confirmation |-> TRUE,
     market_structure |-> "Uptrend",
     volume_nodes |-> <<1, 3>>,
     nearby_nodes |-> 1]

FeedDown ==
    [fails |-> TRUE,
     cols |-> {},
     rows |-> <<>>,
     volume |-> 0,
     volume_confirmation |-> FALSE,
     market_structure |-> "Sideways",
     volume_nodes |-> <<>>,
     nearby_nodes |-> 0]

FeedKinds == {"rally", "quiet", "short", "no_open", "down"}

Feed(kind) ==
    CASE kind = "rally" -> FeedRally
      [] kind = "quiet" -> FeedQuiet
      [] kind = "short" -> FeedShort
      [] kind = "no_open" -> FeedNoOpen
      [] kind = "down" -> FeedDown

\* the DataFrame built from the provider's answer
Frame(feed) == [cols |-> feed.cols, rows |-> feed.rows]

\* the outcome of a piece of code: it raises, or it returns a value
Raise(e) == [kind |-> "raise", error |-> e]

Return(v) == [kind |-> "return", value |-> v]

None == [type |-> "NoneType"]

\* a dict with keys is truthy, None is not
Truthy(v) == v.type = "dict"

\* get_historical_data(alice, token, ...): the instrument and its frame, or
\* the provider's exception
get_historical_data(alice_, token) ==
    LET feed == Feed(alice_[token])
    IN  IF feed.fails
        THEN Raise("data request failed")
        ELSE Return([instrument |-> [symbol |-> "SYM" \o ToString(token)],
                     df |-> Frame(feed),
                     feed |-> feed])

\* identify_candlestick_patterns(df): detect_candlestick_patterns(df) as the
\* value it returns or the ValueError it raises
identify_candlestick_patterns(d) ==
    IF DfEmpty(d)
    THEN Return(<<>>)
    ELSE IF MissingCols(d) # {}
    THEN Raise(ErrorMessage(FirstMissing(d)))
    ELSE Return(detect_all_patterns(PrepareData(d)))

\* identify_candlestick_patterns(df) on each frame the provider answers
\* with, worked out once per frame: the function reads nothing but the frame
IdentifiedPatterns ==
    [rally |-> identify_candlestick_patterns(Frame(FeedRally)),
     quiet |-> identify_candlestick_patterns(Frame(FeedQuiet)),
     short |-> identify_candlestick_patterns(Frame(FeedShort)),
     no_open |-> identify_candlestick_patterns(Frame(FeedNoOpen)),
     down |-> identify_candlestick_patterns(Frame(FeedDown))]

RECURSIVE Join(_, _)
\* sep.join(s)
Join(sep, s) ==
    IF Len(s) = 0 THEN ""
    ELSE IF Len(s) = 1 THEN s[1]
    ELSE s[1] \o sep \o Join(sep, Tail(s))

\* the labels whose lower-case form contains one of the words 'bullish',
\* 'hammer', 'inverted hammer', 'morning star', 'three white soldiers',
\* 'piercing', 'bullish engulfing', 'bullish harami', 'three inside up',
\* 'three outside up'
BullishLabels ==
    {"Hammer", "Inverted Hammer", "Bullish Marubozu", "Bullish Engulfing",
     "Bullish Harami", "Piercing Pattern", "Morning Star",
     "Three White Soldiers", "Three Inside Up", "Three Outside Up"}

\* the labels whose lower-case form contains one of the words 'bearish',
\* 'hanging man', 'shooting star', 'evening star', 'three black crows',
\* 'dark cloud cover', 'bearish engulfing', 'bearish harami',
\* 'three inside down', 'three outside down'
BearishLabels ==
    {"Hanging Man", "Shooting Star", "Bearish Marubozu", "Bearish Engulfing",
     "Bearish Harami", "Dark Cloud Cover", "Evening Star",
     "Three Black Crows", "Three Inside Down", "Three Outside Down"}

\* [p for p in patterns if p in labels]
Filter(s, labels) == SelectSeq(s, LAMBDA p : p \in labels)

IsTrend(structure) == structure \in {"Uptrend", "Downtrend"}

\* the strategy branches: result['Strength'] and result['Breakout_Type']
Score(strategy_, found, feed) ==
    LET bullish_patterns == Filter(found, BullishLabels)
        bearish_patterns == Filter(found, BearishLabels)
    IN  CASE strategy_ = "Price Action Breakout" ->
               IF ~feed.volume_confirmation
               THEN [Strength |-> 0, Breakout_Type |-> ""]
               ELSE IF Len(bullish_patterns) > 0
               THEN [Strength |-> Len(bullish_patterns) * 2,
                     Breakout_Type |-> "Bullish Breakout"]
               ELSE IF Len(bearish_patterns) > 0
               THEN [Strength |-> Len(bearish_patterns) * 2,
                     Breakout_Type |-> "Bearish Breakdown"]
               ELSE IF Len(found) > 0
               THEN [Strength |-> Len(found), Breakout_Type |-> "Neutral Pattern"]
               ELSE [Strength |-> 0, Breakout_Type |-> ""]
          [] strategy_ = "Volume Profile Analysis" ->
               [Strength |-> feed.nearby_nodes * 3, Breakout_Type |-> ""]
          [] strategy_ = "Market Structure Analysis" ->
               [Strength |-> IF IsTrend(feed.market_structure) THEN 5 ELSE 0,
                Breakout_Type |-> ""]
          [] strategy_ = "Multi-Factor Analysis" ->
               [Strength |-> Len(found) * 2 + Len(feed.volume_nodes)
                               + (IF IsTrend(feed.market_structure) THEN 5 ELSE 0),
                Breakout_Type |-> ""]
          [] OTHER -> [Strength |-> 0, Breakout_Type |-> ""]

\* the body of analyze_stock_advanced's try block
analyze_stock_try(alice_, token, strategy_) ==
    LET data == get_historical_data(alice_, token)
    IN  IF data.kind = "raise" THEN data
        ELSE LET d == data.value.df
                 feed == data.value.feed
             IN  IF Len(d.rows) < MinRows THEN Return(None)
                 ELSE IF "close" \notin d.cols THEN Raise("'close'")
                 ELSE IF "volume" \notin d.cols THEN Raise("'volume'")
                 ELSE LET found == IdentifiedPatterns[alice_[token]]
                      IN  IF found.kind = "raise" THEN found
                          ELSE LET score == Score(strategy_, found.value, feed)
                                   result ==
                                     [type |-> "dict",
                                      Name |-> data.value.instrument.symbol,
                                      Close |-> d.rows[Len(d.rows)].close,
                                      Volume |-> feed.volume,
                                      Patterns |-> found.value,
                                      Candlestick_Patterns |->
                                        IF Len(found.value) > 0
                                        THEN Join(", ", found.value)
                                        ELSE "None",
                                      Market_Structure |-> feed.market_structure,
                                      Volume_Nodes |-> feed.volume_nodes,
                                      Breakout_Type |-> score.Breakout_Type,
                                      Strength |-> score.Strength]
                               IN  IF result.Strength > 0
                                   THEN Return(result)
                                   ELSE Return(None)

\* analyze_stock_advanced(alice, token, strategy): the outcome of the call and
\* the lines it prints; an exception of the body is printed and becomes None
analyze_stock_advanced(alice_, token, strategy_) ==
    LET body == analyze_stock_try(alice_, token, strategy_)
    IN  IF body.kind = "raise"
        THEN [outcome |-> Return(None),
              printed |-> {"Error analyzing " \o ToString(token) \o ": " \o body.error}]
        ELSE [outcome |-> body, printed |-> {}]

\* tokens, in the order of the list handed to the batch
tokens == [i \in 1..Len(alice) |-> i]

NotSubmitted == [state |-> "none", outcome |-> Return(None)]

Submitted(t) == future[t].state # "none"

\* analyze_all_tokens_advanced is called with up to MaxTokens tokens, each
\* with any of the feeds, and any strategy
InitBatch ==
    /\ alice \in UNION {[1..n -> FeedKinds] : n \in 0..MaxTokens}
    /\ strategy \in Strategies
    /\ future = [t \in 1..Len(alice) |-> NotSubmitted]
    /\ results = <<>>
    /\ printed = {}
    /\ bpc = "running"
    /\ df = [cols |-> {}, rows |-> <<>>]
    /\ pc = "input"
    /\ detector = NoDetector
    /\ patterns = <<>>
    /\ error = ""
    /\ call = ""
    /\ room = 0

\* executor.submit(analyze_stock_advanced, alice, token, ...) for the next
\* token of the list
Submit ==
    /\ bpc = "running"
    /\ \E i \in 1..Len(tokens) :
         /\ ~Submitted(tokens[i])
         /\ \A j \in 1..(i - 1) : Submitted(tokens[j])
         /\ future' = [future EXCEPT ![tokens[i]].state = "pending"]
    /\ UNCHANGED <<alice, strategy, results, printed, bpc>>
    /\ UNCHANGED <<df, pc, detector, patterns, error, call, room>>

\* a worker thread runs the task of token t to its end
Work(t) ==
    /\ bpc = "running"
    /\ future[t].state = "pending"
    /\ LET task == analyze_stock_advanced(alice, t, strategy)
       IN  /\ future' = [future EXCEPT ![t] = [state |-> "finished",
                                               outcome |-> task.outcome]]
           /\ printed' = printed \cup task.printed
    /\ UNCHANGED <<alice, strategy, results, bpc>>
    /\ UNCHANGED <<df, pc, detector, patterns, error, call, room>>

\* the loop body without the test of the result
Collect_unfiltered(t) ==
    /\ bpc = "running"
    /\ \A u \in DOMAIN future : Submitted(u)
    /\ future[t].state = "finished"
    /\ future' = [future EXCEPT ![t].state = "yielded"]
    /\ IF future[t].outcome.kind = "raise"
       THEN /\ printed' = printed \cup {"Error processing " \o ToString(t) \o ": "
                                          \o future[t].outcome.error}
            /\ UNCHANGED results
       ELSE /\ results' = Append(results, future[t].outcome.value)
            /\ UNCHANGED printed
    /\ UNCHANGED <<alice, strategy, bpc>>
    /\ UNCHANGED <<df, pc, detector, patterns, error, call, room>>

\* one turn of `for future in as_completed(future_to_token)`: any finished
\* future not yet handed out; future.result() re-raises what the task raised
Collect(t) ==
    /\ bpc = "running"
    /\ \A u \in DOMAIN future : Submitted(u)
    /\ future[t].state = "finished"
    /\ future' = [future EXCEPT ![t].state = "yielded"]
    /\ IF future[t].outcome.kind = "raise"
       THEN /\ printed' = printed \cup {"Error processing " \o ToString(t) \o ": "
                                          \o future[t].outcome.error}
            /\ UNCHANGED results
       ELSE IF Truthy(future[t].outcome.value)
       THEN /\ results' = Append(results, future[t].outcome.value)
            /\ UNCHANGED printed
       ELSE UNCHANGED <<results, printed>>
    /\ UNCHANGED <<alice, strategy, bpc>>
    /\ UNCHANGED <<df, pc, detector, patterns, error, call, room>>

\* every future was handed out: the executor shuts down, results is returned
ReturnResults ==
    /\ bpc = "running"
    /\ \A u \in DOMAIN future : future[u].state = "yielded"
    /\ bpc' = "returned"
    /\ UNCHANGED <<alice, strategy, future, results, printed>>
    /\ UNCHANGED <<df, pc, detector, patterns, error, call, room>>

NextBatch ==
    \/ Submit
    \/ \E t \in DOMAIN future : Work(t)
    \/ \E t \in DOMAIN future : Collect(t)
    \/ ReturnResults

SpecBatch == InitBatch /\ [][NextBatch]_vars

\* ------------------------------------------------------------------ claims
\* The claims are stated on the caller's frame df (the raw rows) and on the
\* list handed back.

N == Len(df.rows)

\* a call has handed back a list
Done == pc \in {"detected", "returned"}

Complete == Columns \subseteq df.cols

DojiLabels == {"Doji", "Dragonfly Doji", "Gravestone Doji", "Long-legged Doji"}

SingleLabels ==
    DojiLabels \cup {"Hammer", "Inverted Hammer", "Hanging Man", "Shooting Star",
                     "Spinning Top", "Bullish Marubozu", "Bearish Marubozu"}

TwoLabels ==
    {"Bullish Engulfing", "Bearish Engulfing", "Bullish Harami", "Bearish Harami",
     "Harami Cross", "Piercing Pattern", "Dark Cloud Cover", "Tweezer Tops",
     "Tweezer Bottoms"}

ThreeLabels ==
    {"Morning Star", "Evening Star", "Three White Soldiers", "Three Black Crows",
     "Three Inside Up", "Three Inside Down", "Three Outside Up", "Three Outside Down"}

Has(label) == \E i \in 1..Len(patterns) : patterns[i] = label

HasAny(labels) == \E i \in 1..Len(patterns) : patterns[i] \in labels

IsTwoLabel(l) == l \in TwoLabels
IsThreeLabel(l) == l \in ThreeLabels

\* the raw candle k rows before the last one (0 is the last row)
Raw(k) == df.rows[N - k]

RawBodySize(r) == Abs(r["close"] - r["open"])
RawUpper(r) == r["high"] - Max2(r["open"], r["close"])
RawLower(r) == Min2(r["open"], r["close"]) - r["low"]
RawTotal(r) == r["high"] - r["low"]
RawBullish(r) == r["close"] > r["open"]
RawBearish(r) == r["close"] < r["open"]

\* C1: tier gating.  A series of one row yields single-candle labels only, a
\* series of two rows no three-candle label; the two-candle labels are those of
\* (last, second-to-last) and the three-candle labels those of (last-2, last-1,
\* last); a series too short for a tier never raises (only a missing column
\* does).
C1_TierGating ==
    /\ pc = "raised" => ~Complete
    /\ Done =>
        /\ N = 1 => \A i \in 1..Len(patterns) : patterns[i] \in SingleLabels
        /\ N < 2 => ~HasAny(TwoLabels)
        /\ N < 3 => ~HasAny(ThreeLabels)
        /\ (N >= 2 /\ Complete) =>
             SelectSeq(patterns, IsTwoLabel)
               = TwoCandleLabels(Features(Raw(0)), Features(Raw(1)))
        /\ (N >= 3 /\ Complete) =>
             SelectSeq(patterns, IsThreeLabel)
               = ThreeCandleLabels(Features(Raw(2)), Features(Raw(1)), Features(Raw(0)))

\* a series of exactly two rows with a two-candle label: the second tier is
\* open, the third is closed
C1_Witness == Done /\ N = 2 /\ HasAny(TwoLabels)

\* C2: empty input.  detect_candlestick_patterns on a series of length 0
\* hands back the empty list and raises nothing, whatever columns the frame
\* has.
C2_EmptyInput ==
    (call = "detect_candlestick_patterns" /\ N = 0) =>
        /\ pc = "returned"
        /\ patterns = <<>>
        /\ error = ""

\* the call on pd.DataFrame(): no row and no column
C2_Witness ==
    /\ call = "detect_candlestick_patterns"
    /\ N = 0
    /\ df.cols = {}
    /\ pc = "returned"

IsDojiLabel(l) == l \in DojiLabels

DojiCount == Cardinality({i \in 1..Len(patterns) : patterns[i] \in DojiLabels})

\* C3: Doji exclusivity.  The list holds at most one label of the Doji
\* family; exactly one when the last candle has body_size <= 0.1 * total_size,
\* none otherwise.
C3_DojiExclusive ==
    (Done /\ N >= 1 /\ Complete) =>
        /\ DojiCount <= 1
        /\ DojiCount = 1 <=> 10 * RawBodySize(Raw(0)) <= RawTotal(Raw(0))

\* a last candle that meets two conditions of the family, Doji and Dragonfly
\* Doji, and gets one label
C3_Witness ==
    /\ Done /\ N >= 1 /\ Complete
    /\ RawBodySize(Raw(0)) = 0
    /\ RawUpper(Raw(0)) = 0
    /\ RawLower(Raw(0)) > 0
    /\ Has("Dragonfly Doji")

ZeroRange == N >= 1 /\ Complete /\ RawTotal(Raw(0)) = 0

\* C4 as claimed: a last candle with total_size = 0 gets no Doji-family label.
C4_Original == (Done /\ ZeroRange) => ~HasAny(DojiLabels)

\* C4, amended.  For a last candle with total_size = 0 the Dragonfly,
\* Gravestone and Long-legged predicates are false, the Doji predicate is true
\* (0 <= 0.1 * 0), the one Doji-family label handed back is plain "Doji", and
\* nothing is raised.
C4_ZeroRange ==
    ZeroRange =>
        /\ pc # "raised"
        /\ _is_doji(Features(Raw(0)), RawTotal(Raw(0)))
        /\ ~_is_dragonfly_doji(Features(Raw(0)))
        /\ ~_is_gravestone_doji(Features(Raw(0)))
        /\ ~_is_long_legged_doji(Features(Raw(0)))
        /\ Done => SelectSeq(patterns, IsDojiLabel) = <<"Doji">>

C4_Witness == Done /\ ZeroRange /\ N >= 2 /\ Has("Doji")

\* the fixed order: one slot per label, one for the Doji family and one for
\* the two Marubozu labels
FixedOrder ==
    <<DojiLabels, {"Hammer"}, {"Inverted Hammer"}, {"Hanging Man"}, {"Shooting Star"},
      {"Spinning Top"}, {"Bullish Marubozu", "Bearish Marubozu"},
      {"Bullish Engulfing"}, {"Bearish Engulfing"}, {"Bullish Harami"},
      {"Bearish Harami"}, {"Harami Cross"}, {"Piercing Pattern"},
      {"Dark Cloud Cover"}, {"Tweezer Tops"}, {"Tweezer Bottoms"},
      {"Morning Star"}, {"Evening Star"}, {"Three White Soldiers"},
      {"Three Black Crows"}, {"Three Inside Up"}, {"Three Inside Down"},
      {"Three Outside Up"}, {"Three Outside Down"}>>

Slot(l) == CHOOSE k \in 1..Len(FixedOrder) : l \in FixedOrder[k]

\* C5: output ordering.  The list is a subsequence of the fixed order: every
\* label has a slot, and the slots strictly increase along the list, so single-
\* candle labels precede two-candle labels, these precede three-candle labels,
\* and no label (and no slot) occurs twice.
C5_Ordering ==
    /\ \A i \in 1..Len(patterns) : \E k \in 1..Len(FixedOrder) : patterns[i] \in FixedOrder[k]
    /\ \A i, j \in 1..Len(patterns) : i < j => Slot(patterns[i]) < Slot(patterns[j])

\* a list with labels of two tiers and at least three labels
C5_Witness ==
    /\ Done
    /\ Len(patterns) >= 3
    /\ HasAny(SingleLabels)
    /\ HasAny(TwoLabels)

RaisedMissingColumn ==
    /\ pc = "raised"
    /\ \E col \in Columns \ df.cols : error = ErrorMessage(col)
    /\ detector = NoDetector
    /\ patterns = <<>>

C7_Original ==
    (pc = "input" /\ Complete /\ N = 0) =>
        LET Tails == UNION {[1..n -> Candles] : n \in 0..FreeRows}
            CompleteFrames ==
                {[cols |-> Columns, rows |-> Repeat(h, n) \o t] :
                    h \in ShadowlessCandles, n \in 0..MaxHist, t \in Tails}
        IN \E d \in CompleteFrames :
            LET out == detect_all_patterns(PrepareData(d)) IN
            /\ \E i \in 1..Len(out) : out[i] = "Hammer"
            /\ \E i \in 1..Len(out) : out[i] = "Spinning Top"

\* C7, amended.  Single-candle labels do co-occur for one candle (a Doji-family
\* label with "Hammer" or with "Spinning Top"), but "Hammer" and "Spinning
\* Top" never do: the first needs upper_shadow < avg_body, the second
\* upper_shadow > avg_body.
C7_HammerExcludesSpinningTop == ~(Has("Hammer") /\ Has("Spinning Top"))

\* two single-candle labels for the same last candle, one of them "Hammer"
C7_Witness ==
    /\ Done
    /\ Has("Hammer")
    /\ \E l \in SingleLabels \ {"Hammer"} : Has(l)

\* the sum of body_size over the last k rows
RECURSIVE LastBodySum(_)
LastBodySum(k) == IF k = 0 THEN 0 ELSE RawBodySize(Raw(k - 1)) + LastBodySum(k - 1)

\* C8: Hammer against the rolling baseline.  "Hammer" is in the list if and
\* only if the last candle has lower_shadow > 2 * avg_body, upper_shadow <
\* avg_body and body_size < avg_body, avg_body being the mean of body_size over
\* the last min(N, 20) rows, the last one included.
C8_HammerBaseline ==
    (Done /\ N >= 1 /\ Complete) =>
        LET w == Min2(N, Window)
            total == LastBodySum(w)
        IN Has("Hammer") <=>
             /\ RawLower(Raw(0)) * w > 2 * total
             /\ RawUpper(Raw(0)) * w < total
             /\ RawBodySize(Raw(0)) * w < total

\* a series longer than the window whose oldest row, outside the window, has a
\* body
C8_Witness ==
    /\ Done
    /\ N > Window
    /\ RawBodySize(df.rows[1]) > 0
    /\ Has("Hammer")

EngulfingCase ==
    /\ N >= 2 /\ Complete
    /\ RawBearish(Raw(1))
    /\ RawBullish(Raw(0))
    /\ Raw(0)["open"] < Raw(1)["close"]
    /\ Raw(0)["close"] > Raw(1)["open"]

\* C9: engulfing symmetry.  After a bearish candle, a bullish candle that
\* opens below the previous close and closes above the previous open is
\* labelled "Bullish Engulfing" and not "Bearish Engulfing".
C9_EngulfingSymmetry ==
    (Done /\ EngulfingCase) =>
        /\ Has("Bullish Engulfing")
        /\ ~Has("Bearish Engulfing")

C9_Witness == Done /\ EngulfingCase

\* C10: Morning Star.  With at least three rows, "Morning Star" is in the list
\* if and only if the third-to-last candle is bearish, the second-to-last body
\* is less than half of its body, the last candle is bullish and closes above
\* its midpoint; neither a gap nor a direction of the middle candle is asked.
C10_MorningStar ==
    (Done /\ N >= 3 /\ Complete) =>
        (Has("Morning Star") <=>
            /\ RawBearish(Raw(2))
            /\ 2 * RawBodySize(Raw(1)) < RawBodySize(Raw(2))
            /\ RawBullish(Raw(0))
            /\ 2 * Raw(0)["close"] > Raw(2)["open"] + Raw(2)["close"])

\* a Morning Star whose middle candle is bullish and does not gap below the
\* first close
C10_Witness ==
    /\ Done /\ N >= 3 /\ Complete
    /\ Has("Morning Star")
    /\ RawBullish(Raw(1))
    /\ Raw(1)["close"] >= Raw(2)["close"]

\* C11: determinism, no accumulated state.  Whatever entry point and however
\* many calls of detect_all_patterns led to the state, the list handed back is
\* the list of the caller's series alone (evaluating the series again gives
\* it again, nothing has accumulated), and the detector still holds the
\* features and baselines derived at construction.
C11_Determinism ==
    (Done /\ Complete /\ N >= 1) =>
        /\ patterns = detect_all_patterns(PrepareData(df))
        /\ detector = PrepareData(df)

\* a detector that has answered with two labels; detect_all_patterns is asked
\* again from this state
C11_Witness ==
    /\ pc = "detected"
    /\ detector.built
    /\ Len(patterns) >= 2

DerivedCols ==
    {"body", "body_size", "upper_shadow", "lower_shadow", "total_size",
     "is_bullish", "is_bearish"}

\* C12: input untouched.  A call (the constructor, detect_all_patterns, the
\* convenience function) leaves the caller's frame with the columns and the
\* values it had; the derived columns are on the detector's copy only, next to
\* the caller's values.
C12_InputUntouched ==
    [][pc' # "input" =>
        /\ df' = df
        /\ df'.cols \cap DerivedCols = {}
        /\ \A i \in 1..Len(df'.rows) : DOMAIN df'.rows[i] = df'.cols
        /\ detector'.built =>
             /\ Len(detector'.df) = Len(df.rows)
             /\ \A i \in 1..Len(df.rows) :
                  /\ DerivedCols \subseteq DOMAIN detector'.df[i]
                  /\ \A k \in df.cols : detector'.df[i][k] = df.rows[i][k]]_vars

\* a detector built on two rows and asked: its copy has a body size for the
\* last row, the caller's frame has the four columns
C12_Witness ==
    /\ pc = "detected"
    /\ N = 2
    /\ df.cols = Columns
    /\ detector.df[N].body_size > 0

\* the fixed vocabulary of 28 labels
Vocabulary == SingleLabels \cup TwoLabels \cup ThreeLabels

DescriptionKeys == {descriptions[i][1] : i \in 1..Len(descriptions)}

Described(label) ==
    get_pattern_description(label) \notin {"", "Pattern description not available."}

\* the labels and keys that get_pattern_description answers with a text
DescribedLabels == {l \in Vocabulary \cup DescriptionKeys : Described(l)}

TableInSync ==
    /\ Cardinality(Vocabulary) = 28
    /\ DescriptionKeys = Vocabulary
    /\ DescribedLabels = Vocabulary

\* C13: vocabulary and descriptions in sync.  Every label handed back is one
\* of the 28 labels of the vocabulary, the keys of the description table are
\* exactly the vocabulary, and every label of the vocabulary, so every label
\* handed back, has a description that is neither empty nor the fallback.
C13_VocabularySync ==
    /\ TableInSync
    /\ \A i \in 1..Len(patterns) :
         patterns[i] \in Vocabulary /\ patterns[i] \in DescribedLabels

\* a list with a label of each of two tiers, all of them described
C13_Witness ==
    /\ Done
    /\ HasAny(SingleLabels)
    /\ HasAny(ThreeLabels)
    /\ \A i \in 1..Len(patterns) : Described(patterns[i])

\* the Doji-family label of the claim's priority order, from the raw values of
\* the last row
DojiByPriority ==
    LET b == RawBodySize(Raw(0))
        u == RawUpper(Raw(0))
        l == RawLower(Raw(0))
        t == RawTotal(Raw(0))
    IN IF 10 * u <= t /\ l > 2 * b THEN "Dragonfly Doji"
       ELSE IF 10 * l <= t /\ u > 2 * b THEN "Gravestone Doji"
       ELSE IF 10 * u <= t /\ 10 * l <= t THEN "Doji"
       ELSE IF 5 * u > t /\ 5 * l > t THEN "Long-legged Doji"
       ELSE "Doji"

\* C15: Doji priority order.  When the last candle has body_size <= 0.1 *
\* total_size, the one Doji-family label handed back is the first match of
\* Dragonfly, Gravestone, both shadows <= 0.1 * total_size ("Doji"),
\* Long-legged, and "Doji" when none matches.
C15_DojiPriority ==
    (Done /\ N >= 1 /\ Complete /\ 10 * RawBodySize(Raw(0)) <= RawTotal(Raw(0))) =>
        SelectSeq(patterns, IsDojiLabel) = <<DojiByPriority>>

\* the last branch: a doji with a range, one shadow between a tenth and a fifth
\* of it, that is none of the three named variants
C15_Witness ==
    /\ Done /\ N >= 1 /\ Complete
    /\ 10 * RawBodySize(Raw(0)) <= RawTotal(Raw(0))
    /\ RawTotal(Raw(0)) > 0
    /\ 10 * RawUpper(Raw(0)) > RawTotal(Raw(0))
    /\ 5 * RawUpper(Raw(0)) <= RawTotal(Raw(0))
    /\ Has("Doji")

\* C16: Harami Cross composition.  With at least two rows, "Harami Cross" is
\* in the list if and only if "Bullish Harami" or "Bearish Harami" is and the
\* last candle has body_size <= 0.1 * total_size; the doji test as Harami Cross
\* calls it (with the candle's total_size for the average) answers as the
\* aggregator's does, so a Doji-family label comes with every "Harami Cross".
C16_HaramiCross ==
    (Done /\ N >= 2 /\ Complete) =>
        /\ Has("Harami Cross") <=>
             /\ Has("Bullish Harami") \/ Has("Bearish Harami")
             /\ 10 * RawBodySize(Raw(0)) <= RawTotal(Raw(0))
        /\ _is_doji(Features(Raw(0)), RawTotal(Raw(0))) <=> HasAny(DojiLabels)
        /\ Has("Harami Cross") => HasAny(DojiLabels)

\* a bullish last candle with a body, inside the previous bearish one, that is
\* a doji
C16_Witness ==
    /\ Done /\ N >= 2 /\ Complete
    /\ RawBodySize(Raw(0)) > 0
    /\ Has("Bullish Harami")
    /\ Has("Harami Cross")

\* the Marubozu geometry of the last row against the mean body of the last
\* min(N, 20) rows
MarubozuGeometry ==
    LET w == Min2(N, Window) IN
    /\ RawBodySize(Raw(0)) * w > 2 * LastBodySum(w)
    /\ 10 * RawUpper(Raw(0)) < RawBodySize(Raw(0))
    /\ 10 * RawLower(Raw(0)) < RawBodySize(Raw(0))

\* C17: Marubozu split by direction.  When the geometry holds for the last
\* candle, exactly one of the two Marubozu labels is in the list; "Bullish
\* Marubozu" only for a bullish candle and "Bearish Marubozu" only for a
\* bearish one, never for a candle with body = 0.
C17_MarubozuSplit ==
    (Done /\ N >= 1 /\ Complete) =>
        /\ MarubozuGeometry => (Has("Bullish Marubozu") # Has("Bearish Marubozu"))
        /\ Has("Bullish Marubozu") => RawBullish(Raw(0))
        /\ Has("Bearish Marubozu") => RawBearish(Raw(0))

\* the else branch taken: the geometry holds for a bearish candle
C17_Witness ==
    /\ Done /\ N >= 1 /\ Complete
    /\ MarubozuGeometry
    /\ RawBearish(Raw(0))
    /\ Has("Bearish Marubozu")

\* the caller's frame with row i replaced by candle c
ReplaceRow(d, i, c) == [d EXCEPT !.rows[i] = c]

\* the candles put in the place of an old row: flat, wide, and every candle
\* that occurs in the series
Replacements == HistoryCandles \cup {df.rows[j] : j \in 1..N}

\* C18: bounded window.  For a series of more than 20 rows, replacing a row
\* older than the last 20 by another candle leaves the list as it is.
C18_BoundedWindow ==
    (Done /\ Complete /\ N > Window) =>
        \A i \in 1..(N - Window) : \A c \in Replacements :
            detect_all_patterns(PrepareData(ReplaceRow(df, i, c))) = patterns

\* a series longer than the window whose oldest row has a body, with a label
\* that is measured against the baseline
C18_Witness ==
    /\ Done
    /\ N > Window
    /\ RawBodySize(df.rows[1]) > 0
    /\ Has("Inverted Hammer")

\* C19: a single row.  For a series of one row the baseline avg_body is the
\* candle's own body_size, so no Hammer, Inverted Hammer, Hanging Man, Shooting
\* Star, Spinning Top or Marubozu label can appear: the list is empty or holds
\* exactly one Doji-family label.
C19_SingleRow ==
    (Done /\ N = 1 /\ Complete) =>
        /\ detector.avg_body_size[1] = [sum |-> RawBodySize(Raw(0)), n |-> 1]
        /\ \/ patterns = <<>>
           \/ Len(patterns) = 1 /\ patterns[1] \in DojiLabels

\* one row shaped like a hammer (a body, no upper shadow, a lower shadow of more
\* than twice the body): it gets its Doji-family label and nothing else
C19_Witness ==
    /\ Done /\ N = 1 /\ Complete
    /\ RawBodySize(Raw(0)) > 0
    /\ RawUpper(Raw(0)) = 0
    /\ RawLower(Raw(0)) > 2 * RawBodySize(Raw(0))
    /\ patterns = <<"Dragonfly Doji">>

FlatLast == N >= 1 /\ Complete /\ Raw(0)["close"] = Raw(0)["open"]

\* C20: flat last candle.  When the last candle has close = open, the list has
\* no two-candle label, no three-candle label, and none of Hanging Man,
\* Shooting Star and the Marubozu labels: every label is a Doji-family label,
\* "Hammer", "Inverted Hammer" or "Spinning Top".
C20_FlatLast ==
    (Done /\ FlatLast) =>
        \A i \in 1..Len(patterns) :
            patterns[i] \in DojiLabels \cup {"Hammer", "Inverted Hammer", "Spinning Top"}

\* a flat last candle after two rows, with two labels
C20_Witness ==
    /\ Done /\ FlatLast
    /\ N >= 3
    /\ Len(patterns) >= 2

\* what analyze_stock_advanced returns for token t called on its own
Alone(t) == analyze_stock_advanced(alice, t, strategy).outcome.value

\* the evaluation of token t raises inside analyze_stock_advanced
Raises(t) == analyze_stock_try(alice, t, strategy).kind = "raise"

Occurrences(s, v) == Cardinality({i \in 1..Len(s) : s[i] = v})

\* C14: batch isolation.  analyze_all_tokens_advanced never raises, and when
\* it has returned, whatever the order in which the worker tasks finished and
\* were collected: every entry of the results is a result dict; a token whose
\* evaluation raised (a missing column in pattern detection, a failed data
\* request) has no entry; and the entries are, as a multiset, exactly the
\* results analyze_stock_advanced gives for each of the other tokens on its
\* own.
C14_BatchIsolation ==
    /\ bpc # "raised"
    /\ bpc = "returned" =>
         LET raising == {t \in DOMAIN alice : Raises(t)}
             alone == {Alone(t) : t \in DOMAIN alice \ raising}
             entries == {v \in alone : Truthy(v)}
             produced(v) == Cardinality({t \in DOMAIN alice \ raising : Alone(t) = v})
         IN  /\ \A i \in 1..Len(results) : Truthy(results[i])
             /\ \A t \in raising :
                  \A i \in 1..Len(results) :
                    results[i].Name # "SYM" \o ToString(t)
             /\ \A i \in 1..Len(results) : results[i] \in entries
             /\ \A v \in entries : Occurrences(results, v) = produced(v)

\* a batch of three has returned: the second token lacked the 'open' column
\* and its error was printed, the third token finished and was collected
\* before the first, and both have their entry
C14_Witness ==
    /\ bpc = "returned"
    /\ Len(alice) = 3
    /\ alice[2] = "no_open"
    /\ "Error analyzing 2: Missing required column: open" \in printed
    /\ Len(results) = 2
    /\ results[1].Name = "SYM3"
    /\ results[2].Name = "SYM1"
    /\ results[2].Strength > 0

\* the four tests of the Doji chain on a candle, in the order of the code,
\* each with the label its branch appends
BranchTests(c) ==
    <<[label |-> "Dragonfly Doji", holds |-> _is_dragonfly_doji(c)],
      [label |-> "Gravestone Doji", holds |-> _is_gravestone_doji(c)],
      [label |-> "Doji",
       holds |-> /\ 10 * c.upper_shadow <= c.total_size
                 /\ 10 * c.lower_shadow <= c.total_size],
      [label |-> "Long-legged Doji", holds |-> _is_long_legged_doji(c)]>>

\* the orders in which four tests can be chained
Orders == {p \in [1..4 -> 1..4] : \A i, j \in 1..4 : p[i] = p[j] => i = j}

\* the label of the chain that makes the tests in order p, "Doji" when none
\* holds
FirstMatch(tests, p) ==
    LET hits == {i \in 1..4 : tests[p[i]].holds}
    IN  IF hits = {} THEN "Doji"
        ELSE tests[p[CHOOSE i \in hits : \A j \in hits : i <= j]].label

\* C21: the Doji variant conditions are disjoint.  On the last candle of a
\* series (high >= max(open, close), low <= min(open, close)) at most one of
\* the four tests Dragonfly, Gravestone, both shadows <= 0.1 * total_size and
\* Long-legged holds; when the candle is a doji, the Doji-family label handed
\* back is the one a chain making the four tests in any order would give; and
\* the branch of both shadows <= 0.1 * total_size is taken only by a candle
\* with total_size = 0.
C21_DojiDisjoint ==
    (Done /\ Complete /\ N >= 1) =>
        LET c == Features(df.rows[N])
            tests == BranchTests(c)
        IN  /\ Cardinality({i \in 1..4 : tests[i].holds}) <= 1
            /\ _is_doji(c, c.total_size) =>
                 /\ \A p \in Orders :
                      SelectSeq(patterns, IsDojiLabel) = <<FirstMatch(tests, p)>>
                 /\ (~tests[1].holds /\ ~tests[2].holds /\ tests[3].holds) =>
                      c.total_size = 0

\* a doji with a body and a range, both shadows longer than a fifth of the
\* range: only the Long-legged test holds, and it is the last of the chain
C21_Witness ==
    /\ Done /\ Complete /\ N >= 1
    /\ RawBodySize(Raw(0)) > 0
    /\ 5 * RawUpper(Raw(0)) > RawTotal(Raw(0))
    /\ 5 * RawLower(Raw(0)) > RawTotal(Raw(0))
    /\ SelectSeq(patterns, IsDojiLabel) = <<"Long-legged Doji">>

====
